---------------------------- MODULE Spec2Model ----------------------------
(***************************************************************************)
(* A model of the pawls annotation back end: the dataset commands that     *)
(* ingest PDFs (cli/pawls/commands/dataset.py), the assignment commands    *)
(* that create per-annotator status files (cli/pawls/commands/assign.py)   *)
(* and the API handlers that mutate them (api/main.py).                    *)
(*                                                                         *)
(* The state is the project directory on disk.  Four specifications run    *)
(* over it:                                                                *)
(*   Spec        every command / request runs to completion (no overlap);  *)
(*   DatasetSpec the ingest commands alone, run to completion, hashing or  *)
(*               not;                                                      *)
(*   ConcSpec    API requests and assignment commands interleave at their  *)
(*               file-system accesses;                                     *)
(*   IngestSpec  ingest commands interleave at their file-system accesses  *)
(*               and may be killed between any two of them.                *)
(***************************************************************************)
EXTENDS Integers, Sequences, FiniteSets, TLC

VARIABLES
    papers,      \* [id -> directory <output>/<id> and its <id>.pdf]
    status_dir,  \* whether <output>/status exists
    status,      \* [user -> the file <output>/status/<user>.json]
    payload,     \* [<<sha, user>> -> the file <output>/<sha>/<user>_annotations.json]
    last,        \* the command / request that completed last, with its outcome
    nops,        \* number of commands / requests started so far
    procs        \* the running commands / requests (ConcSpec, IngestSpec)

vars == <<papers, status_dir, status, payload, last, nops, procs>>

-----------------------------------------------------------------------------
(* Bounds of the model.                                                    *)

\* commands / requests in one behaviour of Spec
MaxOps == 4
\* pdfs handed to one `add` or `add_from_s3`
MaxBatch == 2
\* requests and commands that overlap in one behaviour of ConcSpec, ingest
\* commands that overlap in one behaviour of IngestSpec
NProcs == 2

-----------------------------------------------------------------------------
(* Files.  A file is absent, or present and holding text; `ok` says        *)
(* whether the text parses as JSON (an empty, just truncated file does     *)
(* not), `json` is the parsed value.                                       *)

EmptyDict == [k \in {} |-> 0]

NoFile == [exists |-> FALSE, ok |-> FALSE, json |-> EmptyDict]

Truncated == [exists |-> TRUE, ok |-> FALSE, json |-> EmptyDict]

JsonFile(value) == [exists |-> TRUE, ok |-> TRUE, json |-> value]

\* a paper directory: absent; present without its pdf; present with pdf bytes
NoDir == [dir |-> FALSE, pdf |-> FALSE, bytes |-> <<>>]

EmptyPaperDir == [dir |-> TRUE, pdf |-> FALSE, bytes |-> <<>>]

PaperDir(bytes) == [dir |-> TRUE, pdf |-> TRUE, bytes |-> bytes]

-----------------------------------------------------------------------------
(* Values the commands and requests are called with.                       *)

\* user names: two well-formed e-mail addresses and a malformed one
ann1 == <<"a", "@", "b", ".", "c">>

ann2 == <<"d", "@", "b", ".", "c">>

noDot == <<"a", "@", "b">>

Users == {ann1, ann2, noDot}

\* contents of pdf files, as the blocks a copy or a hash reads them in
Bytes1 == <<1, 2>>

Bytes2 == <<2, 1>>

CommentValues == {"", "todo"}

\* the annotation and relation lists of a save request
AnnotationLists == {<<>>, <<"a1">>, <<"a2", "a1">>}

RelationLists == {<<>>, <<"r1">>}

RECURSIVE SeqsUpTo(_, _)
SeqsUpTo(S, n) ==
    IF n = 0 THEN {<<>>}
    ELSE LET shorter == SeqsUpTo(S, n - 1)
         IN shorter \cup {Append(s, x) : s \in {t \in shorter : Len(t) = n - 1}, x \in S}

-----------------------------------------------------------------------------
(* dataset.py: identity of a pdf.                                          *)

\* hashlib's running state over the blocks read so far: a positional fold,
\* so that two contents get one digest only when they are the same blocks
hash_update(file_hash, fb) == file_hash * 3 + fb

RECURSIVE hash_blocks(_, _)
hash_blocks(file_hash, fp) ==
    IF Len(fp) = 0 THEN file_hash
    ELSE hash_blocks(hash_update(file_hash, Head(fp)), Tail(fp))

\* hash_pdf(file): the hex digest of the file's bytes, as a string
hash_pdf(bytes) == ToString(hash_blocks(0, bytes))

\* the name a pdf is stored under: its stem with --no-hash, else its digest
pdf_name_of(pdf, no_hash) == IF no_hash THEN pdf.stem ELSE hash_pdf(pdf.bytes)

\* pdf files (local, or objects of a bucket): two byte-identical files under
\* different names, and a third with other bytes under the first one's name
pdf_x1 == [stem |-> "x", bytes |-> Bytes1]

pdf_y1 == [stem |-> "y", bytes |-> Bytes1]

pdf_x2 == [stem |-> "x", bytes |-> Bytes2]

LocalPdfs == {pdf_x1, pdf_y1, pdf_x2}

\* every name a paper directory can get
Ids == {pdf_name_of(pdf, no_hash) : pdf \in LocalPdfs, no_hash \in BOOLEAN}

\* the document ids the requests and assignments of Spec and ConcSpec name
Shas == {hash_pdf(Bytes1), hash_pdf(Bytes2)}

\* glob("<path>/*/*.pdf"), then the directory name of each hit
project_shas(store) == {id \in DOMAIN store : store[id].dir /\ store[id].pdf}

-----------------------------------------------------------------------------
(* assign.py: the e-mail pattern                                           *)
(*   ^[a-zA-Z0-9_.+-]+@[a-zA-Z0-9-]+\.[a-zA-Z0-9-.]+$                      *)

AlnumChars == {"a", "b", "c", "d", "0", "1"}

LocalChars == AlnumChars \cup {"_", ".", "+", "-"}

DomainChars == AlnumChars \cup {"-"}

TldChars == AlnumChars \cup {"-", "."}

AllIn(s, from, to, chars) == \A k \in from..to : s[k] \in chars

\* the whole of s is <local>@<domain>.<tld>, each part non-empty
FullMatch(s) ==
    \E at \in 2..Len(s), dot \in 4..Len(s) :
        /\ at + 1 < dot
        /\ dot < Len(s)
        /\ s[at] = "@"
        /\ s[dot] = "."
        /\ AllIn(s, 1, at - 1, LocalChars)
        /\ AllIn(s, at + 1, dot - 1, DomainChars)
        /\ AllIn(s, dot + 1, Len(s), TldChars)

\* re.match(pattern, s): the matched text, or <<"None">>.  `$` also matches
\* just before a final newline, and then the match leaves the newline out.
re_match(s) ==
    IF FullMatch(s) THEN s
    ELSE IF Len(s) > 0 /\ s[Len(s)] = "\n" /\ FullMatch(SubSeq(s, 1, Len(s) - 1))
         THEN SubSeq(s, 1, Len(s) - 1)
         ELSE <<"None">>

\* the validation left out: every string passes
valid_email_unchecked(annotator) == TRUE

\* `not result or result.group(0) != annotator` is false
valid_email(annotator) ==
    /\ re_match(annotator) # <<"None">>
    /\ re_match(annotator) = annotator

-----------------------------------------------------------------------------
(* Status records and the two ways the code changes a status mapping.      *)

\* the record assign and assign_to_users insert for a new document
new_status(sha, name) ==
    [ sha |-> sha, name |-> name, annotations |-> 0, relations |-> 0,
      finished |-> FALSE, junk |-> FALSE, comments |-> "",
      completedAt |-> "None" ]

\* name_mapping.get(sha, None), and the sha itself when that is None
name_for(name_mapping, sha) ==
    IF sha \in DOMAIN name_mapping THEN name_mapping[sha] ELSE sha

\* the loop without its `if sha in pdf_status: continue`
insert_overwriting(pdf_status, shas, name_mapping) ==
    [ sha \in DOMAIN pdf_status \cup shas |->
        IF sha \in shas
        THEN new_status(sha, name_for(name_mapping, sha))
        ELSE pdf_status[sha] ]

\* the loop `for sha in sorted(shas)`: documents already in pdf_status are
\* skipped, the others get a new record
insert_missing(pdf_status, shas, name_mapping) ==
    [ sha \in DOMAIN pdf_status \cup shas |->
        IF sha \in DOMAIN pdf_status
        THEN pdf_status[sha]
        ELSE new_status(sha, name_for(name_mapping, sha)) ]

\* the record rebuilt from its defaults and data: {**new record, **data}
merge_data_resetting(status_json, sha, data) ==
    [status_json EXCEPT ![sha] = data @@ new_status(sha, sha)]

\* the merge with its operands exchanged: {**data, **status_json[sha]}
merge_data_old_wins(status_json, sha, data) ==
    [status_json EXCEPT ![sha] = @ @@ data]

\* status_json[sha] = {**status_json[sha], **data}   (sha is a key)
merge_data(status_json, sha, data) ==
    [status_json EXCEPT ![sha] = data @@ @]

\* the exceptions caught and dropped
load_raises_nothing(st, sha) == "None"

\* update_status_json, lines 90-91: what json.load(st) or status_json[sha]
\* raises on the file `st`
load_raises(st, sha) ==
    IF ~st.ok THEN "JSONDecodeError"
    ELSE IF sha \notin DOMAIN st.json THEN "KeyError"
    ELSE "None"

\* update_status_json run from open to truncate on the file `st`:
\* what it raises, and the file it leaves
update_status_json(st, sha, data) ==
    IF load_raises(st, sha) # "None"
    THEN [raised |-> load_raises(st, sha), file |-> st]
    ELSE [raised |-> "None", file |-> JsonFile(merge_data(st.json, sha, data))]

\* the test left out: every user counts as allocated
status_exists_unchecked(user) == TRUE

\* os.path.exists(<output>/status/<user>.json)
status_exists(user) == status_dir /\ status[user].exists

-----------------------------------------------------------------------------
(* The initial state: an empty project directory.                          *)

NoProcs == [p \in {} |-> 0]

NoArgs == [none |-> TRUE]

Init ==
    /\ papers = [id \in Ids |-> NoDir]
    /\ status_dir = FALSE
    /\ status = [user \in Users |-> NoFile]
    /\ payload = [f \in Ids \X Users |-> NoFile]
    /\ last = [op |-> "init", args |-> NoArgs, result |-> "ok", ret |-> EmptyDict]
    /\ nops = 0
    /\ procs = NoProcs

\* a command or request that ran to completion
Completed(op, args, result, ret) ==
    /\ last' = [op |-> op, args |-> args, result |-> result, ret |-> ret]
    /\ nops' = nops + 1
    /\ UNCHANGED procs

-----------------------------------------------------------------------------
(* dataset.py, run to completion: add and add_from_s3.                     *)

\* the round without its `output_dir.exists()` test
add_one_overwriting(store, pdf, no_hash) ==
    [store EXCEPT ![pdf_name_of(pdf, no_hash)] = PaperDir(pdf.bytes)]

\* what one round of add's loop does to the papers directory: nothing when
\* output_dir exists, else mkdir and copy
add_one(store, pdf, no_hash) ==
    LET pdf_name == pdf_name_of(pdf, no_hash)
    IN IF store[pdf_name].dir
       THEN store
       ELSE [store EXCEPT ![pdf_name] = PaperDir(pdf.bytes)]

RECURSIVE add_loop(_, _, _)
add_loop(store, pdfs, no_hash) ==
    IF pdfs = <<>> THEN store
    ELSE add_loop(add_one(store, Head(pdfs), no_hash), Tail(pdfs), no_hash)

\* per pdf of the batch, in order: the name it resolved to and whether the
\* loop skipped it ("already added")
RECURSIVE add_log(_, _, _)
add_log(store, pdfs, no_hash) ==
    IF pdfs = <<>> THEN <<>>
    ELSE <<[ pdf_name |-> pdf_name_of(Head(pdfs), no_hash),
             skipped |-> store[pdf_name_of(Head(pdfs), no_hash)].dir ]>>
         \o add_log(add_one(store, Head(pdfs), no_hash), Tail(pdfs), no_hash)

\* `pawls add <directory> [--no-hash]`; pdfs is the glob of the directory
\* (or the one file named), in the order the loop takes them
add(pdfs, no_hash) ==
    /\ nops < MaxOps
    /\ papers' = add_loop(papers, pdfs, no_hash)
    /\ Completed("add", [pdfs |-> pdfs, no_hash |-> no_hash], "ok",
                 add_log(papers, pdfs, no_hash))
    /\ UNCHANGED <<status_dir, status, payload>>

\* the first loop of add_from_s3: file_equivalents[pdf_name] = f.name, a
\* later object of the same name replacing an earlier one
RECURSIVE file_equivalents(_, _)
file_equivalents(files, no_hash) ==
    IF files = <<>> THEN EmptyDict
    ELSE LET s3_pdf == files[Len(files)]
         IN (pdf_name_of(s3_pdf, no_hash) :> s3_pdf.bytes)
            @@ file_equivalents(SubSeq(files, 1, Len(files) - 1), no_hash)

\* the second loop of add_from_s3: every staged file whose output_dir does
\* not exist is moved into a new directory
move_staged(store, staged) ==
    [ id \in DOMAIN store |->
        IF id \in DOMAIN staged /\ ~store[id].dir
        THEN PaperDir(staged[id])
        ELSE store[id] ]

\* `pawls add_from_s3 <bucket> <directory> [--no-hash]`; files are the
\* bucket's objects under the prefix that end in .pdf, failed the positions
\* of those whose bucket.download_file raises.  The downloads all come
\* before the first move and nothing catches what one of them raises.
add_from_s3(files, no_hash, failed) ==
    LET args == [pdfs |-> files, no_hash |-> no_hash, failed |-> failed]
    IN /\ nops < MaxOps
       /\ IF files = <<>>
          THEN /\ Completed("add_from_s3", args, "BadArgumentUsage", <<>>)
               /\ UNCHANGED papers
          ELSE IF failed # {}
          THEN /\ Completed("add_from_s3", args, "ClientError", <<>>)
               /\ UNCHANGED papers
          ELSE /\ papers' = move_staged(papers, file_equivalents(files, no_hash))
               /\ Completed("add_from_s3", args, "ok",
                            {id \in DOMAIN file_equivalents(files, no_hash) : papers[id].dir})
       /\ UNCHANGED <<status_dir, status, payload>>

\* the batches a dataset command is run on
Batches == SeqsUpTo(LocalPdfs, MaxBatch)

\* a local directory holds one file per name
Directories ==
    {pdfs \in Batches : pdfs # <<>> /\ \A i, j \in 1..Len(pdfs) : pdfs[i].stem = pdfs[j].stem => i = j}

-----------------------------------------------------------------------------
(* assign.py, run to completion: assign and assign_to_users.               *)

NoShaFile == [given |-> FALSE, lines |-> <<>>]

NoNameFile == [given |-> FALSE, names |-> EmptyDict]

\* [x.strip("\n") for x in open(sha_file)]: one id per line of the file
extra_ids(sha_file) == {sha_file.lines[k] : k \in DOMAIN sha_file.lines}

\* the shas assign works on: the arguments, the project's with --all, the
\* sha file's lines
requested_shas(shas, sha_file, all, project) ==
    shas \cup (IF all THEN project ELSE {})
         \cup (IF sha_file.given THEN extra_ids(sha_file) ELSE {})

\* the test left out: no sha counts as missing from the project
difference_unchecked(shas, project) == {}

\* shas.difference(project_shas): the shas that are not in the project
difference(shas, project) == shas \ project

\* json.load(open(status_path)) when the file exists, else {}
read_pdf_status(st) == IF st.exists THEN st.json ELSE EmptyDict

\* `pawls assign <path> <annotator> <shas> [--sha-file f] [--name-file f] [--all]`
assign(annotator, shas, sha_file, name_file, all) ==
    LET args == [ annotator |-> annotator, shas |-> shas, sha_file |-> sha_file,
                  name_file |-> name_file, all |-> all ]
        project == project_shas(papers)
        wanted == requested_shas(shas, sha_file, all, project)
        diff == difference(wanted, project)
        st == status[annotator]
    IN /\ nops < MaxOps
       /\ IF diff # {}
          THEN /\ Completed("assign", args, "UsageError", diff)
               /\ UNCHANGED <<status_dir, status>>
          ELSE IF ~valid_email(annotator)
          THEN /\ Completed("assign", args, "BadArgumentUsage", {})
               /\ UNCHANGED <<status_dir, status>>
          ELSE IF st.exists /\ ~st.ok
          THEN /\ Completed("assign", args, "JSONDecodeError", {})
               /\ status_dir' = TRUE
               /\ UNCHANGED status
          ELSE /\ Completed("assign", args, "ok", {})
               /\ status_dir' = TRUE
               /\ status' = [status EXCEPT ![annotator] =
                     JsonFile(insert_missing(read_pdf_status(st), wanted, name_file.names))]
       /\ UNCHANGED <<papers, payload>>

\* email.strip().replace("\n", ""): blanks and newlines leave both ends,
\* newlines leave the middle
Blank == {" ", "\n"}

RECURSIVE lstrip(_)
lstrip(s) == IF s # <<>> /\ Head(s) \in Blank THEN lstrip(Tail(s)) ELSE s

RECURSIVE rstrip(_)
rstrip(s) ==
    IF s # <<>> /\ s[Len(s)] \in Blank THEN rstrip(SubSeq(s, 1, Len(s) - 1)) ELSE s

strip(s) == SelectSeq(rstrip(lstrip(s)), LAMBDA c : c # "\n")

\* the loop ending at the first line that is not an e-mail, as assign does
RECURSIVE assign_users_loop_failfast(_, _, _)
assign_users_loop_failfast(files_now, emails, files) ==
    IF emails = <<>> THEN files_now
    ELSE LET annotator == strip(Head(emails))
             st == IF annotator \in DOMAIN files_now THEN files_now[annotator] ELSE NoFile
         IN IF ~valid_email(annotator) \/ (st.exists /\ ~st.ok)
            THEN files_now
            ELSE assign_users_loop_failfast(
                    (annotator :> JsonFile(insert_missing(read_pdf_status(st), files, EmptyDict)))
                        @@ files_now,
                    Tail(emails), files)

\* the loop of assign_to_users over the lines of the users file, on the
\* status files `files_now`: every line that is an e-mail gets its records
RECURSIVE assign_users_loop(_, _, _)
assign_users_loop(files_now, emails, files) ==
    IF emails = <<>> THEN files_now
    ELSE LET annotator == strip(Head(emails))
             st == IF annotator \in DOMAIN files_now THEN files_now[annotator] ELSE NoFile
         IN IF ~valid_email(annotator)
            THEN assign_users_loop(files_now, Tail(emails), files)
            ELSE IF st.exists /\ ~st.ok
            THEN files_now   \* json.load raises: the command ends here
            ELSE assign_users_loop(
                    (annotator :> JsonFile(insert_missing(read_pdf_status(st), files, EmptyDict)))
                        @@ files_now,
                    Tail(emails), files)

\* the lines the loop warns about: `Invalid annotator email`
invalid_lines(emails) ==
    {k \in DOMAIN emails : ~valid_email(strip(emails[k]))}

\* `pawls assign_to_users <path> <users> <files> [--all]`
assign_to_users(emails, files, all) ==
    LET args == [emails |-> emails, shas |-> files, all |-> all]
        project_files == project_shas(papers)
        diff == difference(files, project_files)
        wanted == files \cup (IF all THEN project_files ELSE {})
    IN /\ nops < MaxOps
       /\ IF diff # {}
          THEN /\ Completed("assign_to_users", args, "UsageError", diff)
               /\ UNCHANGED <<status_dir, status>>
          ELSE /\ Completed("assign_to_users", args, "ok", invalid_lines(emails))
               /\ status_dir' = TRUE
               /\ status' = assign_users_loop(status, emails, wanted)
       /\ UNCHANGED <<papers, payload>>

-----------------------------------------------------------------------------
(* api/main.py, each request run to completion.                            *)

\* the three handlers that set one field: set_pdf_comments, set_pdf_junk,
\* set_pdf_finished
set_field(op, sha, data, user) ==
    LET args == [sha |-> sha, data |-> data, user |-> user]
        upd == update_status_json(status[user], sha, data)
    IN /\ nops < MaxOps
       /\ IF ~status_exists(user)
          THEN \* Not an allocated user. Do nothing.
               /\ Completed(op, args, "ok", EmptyDict)
               /\ UNCHANGED status
          ELSE /\ Completed(op, args, IF upd.raised = "None" THEN "ok" ELSE upd.raised,
                            EmptyDict)
               /\ status' = [status EXCEPT ![user] = upd.file]
       /\ UNCHANGED <<papers, status_dir, payload>>

set_pdf_comments(sha, comments, user) ==
    set_field("set_pdf_comments", sha, [comments |-> comments], user)

set_pdf_junk(sha, junk, user) ==
    set_field("set_pdf_junk", sha, [junk |-> junk], user)

set_pdf_finished(sha, finished, user) ==
    set_field("set_pdf_finished", sha, [finished |-> finished], user)

\* the data save_annotations hands to update_status_json
counts_of(annotations, relations) ==
    [annotations |-> Len(annotations), relations |-> Len(relations)]

\* POST /api/doc/{sha}/annotations
save_annotations(sha, annotations, relations, user) ==
    LET args == [sha |-> sha, annotations |-> annotations, relations |-> relations,
                 user |-> user]
        upd == update_status_json(status[user], sha, counts_of(annotations, relations))
    IN /\ nops < MaxOps
       /\ IF ~status_exists(user)
          THEN \* Not an allocated user. Do nothing.
               /\ Completed("save_annotations", args, "ok", EmptyDict)
               /\ UNCHANGED <<status, payload>>
          ELSE IF ~papers[sha].dir
          THEN \* open(annotations_path, "w+") finds no directory <sha>
               /\ Completed("save_annotations", args, "FileNotFoundError", EmptyDict)
               /\ UNCHANGED <<status, payload>>
          ELSE /\ payload' = [payload EXCEPT ![<<sha, user>>] =
                     JsonFile([annotations |-> annotations, relations |-> relations])]
               /\ Completed("save_annotations", args,
                            IF upd.raised = "None" THEN "ok" ELSE upd.raised, EmptyDict)
               /\ status' = [status EXCEPT ![user] = upd.file]
       /\ UNCHANGED <<papers, status_dir>>

\* {"annotations": [], "relations": []}
EmptyPayload == [annotations |-> <<>>, relations |-> <<>>]

\* the handler answering with the empty payload whatever is stored
load_blob_empty(file) == EmptyPayload

\* get_annotations, lines 190-199: the parsed file when it exists, else the
\* empty payload
load_blob(file) == IF file.exists THEN file.json ELSE EmptyPayload

\* GET /api/doc/{sha}/annotations
get_annotations(sha, user) ==
    LET file == payload[<<sha, user>>]
    IN /\ nops < MaxOps
       /\ IF file.exists /\ ~file.ok
          THEN Completed("get_annotations", [sha |-> sha, user |-> user],
                         "JSONDecodeError", EmptyDict)
          ELSE Completed("get_annotations", [sha |-> sha, user |-> user], "ok",
                         load_blob(file))
       /\ UNCHANGED <<papers, status_dir, status, payload>>

\* the orders a listing of the set S can come in
Listings(S) ==
    {l \in [1..Cardinality(S) -> S] : \A i, j \in 1..Cardinality(S) : l[i] = l[j] => i = j}

\* glob("<output_directory>/*/*.pdf"): the path <dir>/<name>.pdf of every pdf
\* in a paper directory, in the order the file system lists them
glob_pdfs(store) ==
    {[k \in DOMAIN l |-> [dir |-> l[k], name |-> l[k]]] : l \in Listings(project_shas(store))}

\* the listing short of its first path
all_pdf_shas_but_first(pdfs) == [k \in 1..(Len(pdfs) - 1) |-> pdfs[k + 1].dir]

\* [p.split("/")[-2] for p in pdfs]: the directory of each path
all_pdf_shas(pdfs) == [k \in DOMAIN pdfs |-> pdfs[k].dir]

\* app.metadata.PaperStatus.empty(sha, name): a record with the defaults of
\* a status record (counts 0, flags false, comments empty, completedAt absent)
PaperStatus_empty(sha, name) ==
    [ sha |-> sha, name |-> name, annotations |-> 0, relations |-> 0,
      finished |-> FALSE, junk |-> FALSE, comments |-> "",
      completedAt |-> "None" ]

\* app.metadata.PaperStatus(**status): the fields of a status record
PaperStatus(st) ==
    [ f \in {"sha", "name", "annotations", "relations", "finished", "junk",
             "comments", "completedAt"} |-> st[f] ]

\* GET /api/annotation/allocation/info.  The order of the keys in the status
\* file is not part of the state: the records come in any order.
get_allocation_info(user) ==
    LET args == [user |-> user]
        st == status[user]
    IN /\ nops < MaxOps
       /\ IF ~status_exists(user)
          THEN \E pdfs \in glob_pdfs(papers) :
                  Completed("get_allocation_info", args, "ok",
                      [ papers |-> [ k \in DOMAIN all_pdf_shas(pdfs) |->
                                       PaperStatus_empty(all_pdf_shas(pdfs)[k],
                                                         all_pdf_shas(pdfs)[k]) ],
                        hasAllocatedPapers |-> FALSE ])
          ELSE IF ~st.ok
          THEN Completed("get_allocation_info", args, "JSONDecodeError", EmptyDict)
          ELSE \E items \in Listings(DOMAIN st.json) :
                  Completed("get_allocation_info", args, "ok",
                      [ papers |-> [k \in DOMAIN items |-> PaperStatus(st.json[items[k]])],
                        hasAllocatedPapers |-> TRUE ])
       /\ UNCHANGED <<papers, status_dir, status, payload>>

-----------------------------------------------------------------------------
(* Spec: commands and requests one after the other.                        *)

\* the users that send requests (each is on the allow list)
ApiUsers == {ann1, ann2}

\* argument lists of assign: shas alone, with and without a name file;
\* --all; a sha file; an unknown sha beside --all
SomeSha == hash_pdf(Bytes1)

ShaFile1 == [given |-> TRUE, lines |-> <<SomeSha>>]

NameFile1 == [given |-> TRUE, names |-> (SomeSha :> "Paper One")]

AssignArgs ==
    {[shas |-> shas, sha_file |-> NoShaFile, name_file |-> name_file, all |-> FALSE] :
        shas \in SUBSET Shas, name_file \in {NoNameFile, NameFile1}}
    \cup {[shas |-> {}, sha_file |-> NoShaFile, name_file |-> NoNameFile, all |-> TRUE],
          [shas |-> {}, sha_file |-> ShaFile1, name_file |-> NoNameFile, all |-> FALSE]}

\* users files, one e-mail per line: a malformed line before a well-formed
\* one, and the reverse
line(email) == Append(email, "\n")

UsersFiles == {<<line(noDot), line(ann1)>>, <<line(ann2), line(noDot)>>}

\* the directories `add` is run on in Spec (pdfs are stored under their hash)
HashedDirectories == {<<pdf_x1>>, <<pdf_x2>>, <<pdf_y1, pdf_x2>>}

Next ==
    \/ \E pdfs \in HashedDirectories : add(pdfs, FALSE)
    \/ \E annotator \in Users, a \in AssignArgs :
          assign(annotator, a.shas, a.sha_file, a.name_file, a.all)
    \/ \E emails \in UsersFiles, files \in SUBSET Shas, all \in BOOLEAN :
          assign_to_users(emails, files, all)
    \/ \E sha \in Shas, comments \in CommentValues, user \in ApiUsers :
          set_pdf_comments(sha, comments, user)
    \/ \E sha \in Shas, junk \in BOOLEAN, user \in ApiUsers :
          set_pdf_junk(sha, junk, user)
    \/ \E sha \in Shas, finished \in BOOLEAN, user \in ApiUsers :
          set_pdf_finished(sha, finished, user)
    \/ \E sha \in Shas, annotations \in AnnotationLists, relations \in RelationLists,
          user \in ApiUsers :
          save_annotations(sha, annotations, relations, user)
    \/ \E user \in ApiUsers : get_allocation_info(user)
    \/ \E sha \in Shas, user \in ApiUsers : get_annotations(sha, user)

Spec == Init /\ [][Next]_vars

-----------------------------------------------------------------------------
(* ConcSpec: requests (each served on its own worker thread) and assign    *)
(* commands (each its own process) overlap.  One step is one access to the *)
(* file system together with the in-memory work that follows it.           *)

Idle ==
    [op |-> "idle", args |-> NoArgs, pc |-> "idle", status_json |-> EmptyDict,
     result |-> "None"]

\* process p moves to pc, holding status_json
Goto(p, pc, status_json) ==
    procs' = [procs EXCEPT ![p].pc = pc, ![p].status_json = status_json]

\* process p ends with result
Finish(p, result) ==
    procs' = [procs EXCEPT ![p].pc = "done", ![p].result = result]

\* a request arrives and its handler tests os.path.exists(status_path);
\* req is [op, sha, data, user] and, for a save, the lists to store
handler_exists(p, req) ==
    /\ procs[p].pc = "idle"
    /\ procs' = [procs EXCEPT ![p] =
          [op |-> req.op, args |-> req,
           pc |-> IF ~status_exists(req.user) THEN "done"
                  ELSE IF req.op = "save_annotations" THEN "payload"
                  ELSE IF req.op = "get_allocation_info" THEN "allocation"
                  ELSE "load",
           status_json |-> EmptyDict,
           result |-> IF ~status_exists(req.user) THEN "ok" ELSE "None"]]
    /\ UNCHANGED <<papers, status_dir, status, payload, last, nops>>

\* save_annotations: open(annotations_path, "w+") and json.dump.  Nothing in
\* ConcSpec reads a payload file, so the open and the dump are one step.
handler_payload(p) ==
    LET req == procs[p].args
    IN /\ procs[p].pc = "payload"
       /\ IF ~papers[req.sha].dir
          THEN /\ Finish(p, "FileNotFoundError")
               /\ UNCHANGED payload
          ELSE /\ payload' = [payload EXCEPT ![<<req.sha, req.user>>] =
                     JsonFile([annotations |-> req.annotations,
                               relations |-> req.relations])]
               /\ Goto(p, "load", EmptyDict)
       /\ UNCHANGED <<papers, status_dir, status, last, nops>>

\* update_status_json, lines 89-91: open, json.load and the merge in memory
handler_load(p) ==
    LET req == procs[p].args
        st == status[req.user]
    IN /\ procs[p].pc = "load"
       /\ IF load_raises(st, req.sha) # "None"
          THEN Finish(p, load_raises(st, req.sha))
          ELSE Goto(p, "dump", merge_data(st.json, req.sha, req.data))
       /\ UNCHANGED <<papers, status_dir, status, payload, last, nops>>

\* update_status_json, lines 92-94: seek(0), json.dump, truncate
handler_dump(p) ==
    LET req == procs[p].args
    IN /\ procs[p].pc = "dump"
       /\ status' = [status EXCEPT ![req.user] = JsonFile(procs[p].status_json)]
       /\ Finish(p, "ok")
       /\ UNCHANGED <<papers, status_dir, payload, last, nops>>

\* get_allocation_info, lines 298-299: open(status_path) and json.load
allocation_load(p) ==
    LET st == status[procs[p].args.user]
    IN /\ procs[p].pc = "allocation"
       /\ Finish(p, IF st.ok THEN "ok" ELSE "JSONDecodeError")
       /\ UNCHANGED <<papers, status_dir, status, payload, last, nops>>

\* assign, lines 62-99: the glob, both validations, os.makedirs
assign_start(p, annotator, a) ==
    LET args == [annotator |-> annotator, shas |-> a.shas, sha_file |-> a.sha_file,
                 name_file |-> a.name_file, all |-> a.all]
        project == project_shas(papers)
        diff == difference(requested_shas(a.shas, a.sha_file, a.all, project), project)
        raised == IF diff # {} THEN "UsageError"
                  ELSE IF ~valid_email(annotator) THEN "BadArgumentUsage"
                  ELSE "None"
    IN /\ procs[p].pc = "idle"
       /\ procs' = [procs EXCEPT ![p] =
             [op |-> "assign", args |-> args,
              pc |-> IF raised = "None" THEN "read" ELSE "done",
              status_json |-> EmptyDict, result |-> raised]]
       /\ status_dir' = (status_dir \/ raised = "None")
       /\ UNCHANGED <<papers, status, payload, last, nops>>

\* assign, lines 101-131: read the status file if there is one, add the
\* missing records in memory
assign_read(p) ==
    LET args == procs[p].args
        st == status[args.annotator]
        wanted == requested_shas(args.shas, args.sha_file, args.all, project_shas(papers))
    IN /\ procs[p].pc = "read"
       /\ IF st.exists /\ ~st.ok
          THEN Finish(p, "JSONDecodeError")
          ELSE Goto(p, "open", insert_missing(read_pdf_status(st), wanted,
                                              args.name_file.names))
       /\ UNCHANGED <<papers, status_dir, status, payload, last, nops>>

\* assign, line 133: open(status_path, "w+") creates or empties the file
assign_open(p) ==
    /\ procs[p].pc = "open"
    /\ status' = [status EXCEPT ![procs[p].args.annotator] = Truncated]
    /\ Goto(p, "write", procs[p].status_json)
    /\ UNCHANGED <<papers, status_dir, payload, last, nops>>

\* assign, line 134: json.dump, and the close that ends the `with`
assign_dump(p) ==
    /\ procs[p].pc = "write"
    /\ status' = [status EXCEPT ![procs[p].args.annotator] =
          JsonFile(procs[p].status_json)]
    /\ Finish(p, "ok")
    /\ UNCHANGED <<papers, status_dir, payload, last, nops>>

\* an assign is killed between its open and its json.dump: the emptied file
\* stays.  (A process killed anywhere else leaves the disk as one that takes
\* no further step does.)
crash(p) ==
    /\ procs[p].pc = "write"
    /\ procs' = [procs EXCEPT ![p].pc = "killed", ![p].result = "killed"]
    /\ UNCHANGED <<papers, status_dir, status, payload, last, nops>>

\* ConcSpec starts from a project set up with `pawls add` of two pdfs and
\* `pawls assign <path> a@b.c <sha of the first>`: both papers stored, the
\* first assigned to ann1, no other status file
ConcInit ==
    /\ papers = add_loop([id \in Ids |-> NoDir], <<pdf_x1, pdf_x2>>, FALSE)
    /\ status_dir = TRUE
    /\ status = [user \in Users |->
          IF user = ann1
          THEN JsonFile(insert_missing(EmptyDict, {SomeSha}, EmptyDict))
          ELSE NoFile]
    /\ payload = [f \in Ids \X Users |-> NoFile]
    /\ last = [op |-> "init", args |-> NoArgs, result |-> "ok", ret |-> EmptyDict]
    /\ nops = 0
    /\ procs = [p \in 1..NProcs |-> Idle]

\* the requests of ConcSpec: each handler, on either paper, for ann1
ConcRequests ==
    {[op |-> "set_pdf_comments", sha |-> sha, data |-> [comments |-> "todo"], user |-> ann1,
      annotations |-> <<>>, relations |-> <<>>] : sha \in Shas}
    \cup {[op |-> "set_pdf_junk", sha |-> sha, data |-> [junk |-> TRUE], user |-> ann1,
           annotations |-> <<>>, relations |-> <<>>] : sha \in Shas}
    \cup {[op |-> "set_pdf_finished", sha |-> sha, data |-> [finished |-> TRUE],
           user |-> ann1, annotations |-> <<>>, relations |-> <<>>] : sha \in Shas}
    \cup {[op |-> "save_annotations", sha |-> sha,
           data |-> counts_of(annotations, relations), user |-> ann1,
           annotations |-> annotations, relations |-> relations] :
           sha \in Shas, annotations \in AnnotationLists, relations \in RelationLists}
    \cup {[op |-> "get_allocation_info", user |-> ann1]}

\* the assign commands of ConcSpec
ConcAssignArgs ==
    {[shas |-> shas, sha_file |-> NoShaFile, name_file |-> NoNameFile, all |-> FALSE] :
        shas \in SUBSET Shas}

ConcNext ==
    \E p \in 1..NProcs :
        \/ \E req \in ConcRequests : handler_exists(p, req)
        \/ handler_payload(p)
        \/ handler_load(p)
        \/ handler_dump(p)
        \/ allocation_load(p)
        \/ \E annotator \in {ann1, ann2}, a \in ConcAssignArgs : assign_start(p, annotator, a)
        \/ assign_read(p)
        \/ assign_open(p)
        \/ assign_dump(p)
        \/ crash(p)

ConcSpec == ConcInit /\ [][ConcNext]_vars

-----------------------------------------------------------------------------
(* Claims about the status store under overlapping requests (ConcSpec).    *)

MutationOps ==
    {"set_pdf_comments", "set_pdf_junk", "set_pdf_finished", "save_annotations"}

\* process p is a request that went through update_status_json and returned
Updated(p) ==
    /\ procs[p].op \in MutationOps
    /\ procs[p].pc = "done"
    /\ procs[p].result = "ok"

\* user's status file holds a record for sha whose fields are those of data
RecordHolds(user, sha, data) ==
    /\ status[user].ok
    /\ sha \in DOMAIN status[user].json
    /\ \A f \in DOMAIN data : status[user].json[sha][f] = data[f]

\* C1: no lost update.  When the status mutations that ran are two requests
\* that set distinct fields of one record, and both have returned, the
\* record in the annotator's status file holds the fields of both.
C1_NoLostUpdate ==
    \A p, q \in 1..NProcs :
        ( /\ p # q
          /\ Updated(p) /\ Updated(q)
          /\ procs[p].args.user = procs[q].args.user
          /\ procs[p].args.sha = procs[q].args.sha
          /\ DOMAIN procs[p].args.data \cap DOMAIN procs[q].args.data = {}
          /\ \A r \in 1..NProcs \ {p, q} : procs[r].pc = "idle" )
        => /\ RecordHolds(procs[p].args.user, procs[p].args.sha, procs[p].args.data)
           /\ RecordHolds(procs[q].args.user, procs[q].args.sha, procs[q].args.data)

\* C2: per-annotator serialization.  When a status mutation and an assign
\* command for the same annotator have both completed (and nothing else
\* ran), the field the mutation set is in the file: in either serial order
\* the assignment keeps the record as the mutation left it.
C2_NoErasure ==
    \A p, q \in 1..NProcs :
        ( /\ Updated(p)
          /\ procs[q].op = "assign" /\ procs[q].pc = "done" /\ procs[q].result = "ok"
          /\ procs[q].args.annotator = procs[p].args.user
          /\ \A r \in 1..NProcs \ {p, q} : procs[r].pc = "idle" )
        => RecordHolds(procs[p].args.user, procs[p].args.sha, procs[p].args.data)

\* process p read the annotator's status file: a status mutation, an
\* assign, or a get_allocation_info that got as far as json.load
ReadStatus(p) ==
    /\ procs[p].op \in MutationOps \cup {"assign", "get_allocation_info"}
    /\ procs[p].pc \in {"dump", "open", "write", "done", "killed"}
    /\ procs[p].result # "FileNotFoundError"

\* C11: status persistence is crash-safe.  No reader of a status file
\* (status mutation, assign, get_allocation_info) finds it unparseable,
\* while another process is writing it or after a writer was killed.
C11_ReadersSeeWholeFile ==
    \A p \in 1..NProcs : ReadStatus(p) => procs[p].result # "JSONDecodeError"

\* C18: a failed status merge after a save is reported.  A save that has
\* written its payload returns success only when its merge went through:
\* at that moment the record of the document in the annotator's status file
\* holds the counts of the saved lists.
C18_FailedMergeReported ==
    [][ \A p \in 1..NProcs :
          ( /\ procs[p].op = "save_annotations"
            /\ procs[p].pc \in {"load", "dump"}
            /\ procs'[p].pc = "done"
            /\ procs'[p].result = "ok" )
          => /\ status'[procs[p].args.user].ok
             /\ procs[p].args.sha \in DOMAIN status'[procs[p].args.user].json
             /\ status'[procs[p].args.user].json[procs[p].args.sha].annotations
                   = Len(procs[p].args.annotations)
             /\ status'[procs[p].args.user].json[procs[p].args.sha].relations
                   = Len(procs[p].args.relations) ]_vars

\* a save wrote its payload and its merge failed, on a document missing
\* from the status file or on a file an assign had just emptied
MergeFailed(p, raised) ==
    /\ procs[p].op = "save_annotations"
    /\ procs[p].pc = "done"
    /\ procs[p].result = raised
    /\ payload[<<procs[p].args.sha, procs[p].args.user>>].exists

C18_Witness ==
    /\ MergeFailed(1, "JSONDecodeError")
    /\ procs[2].op = "assign"
    /\ procs[2].result = "ok"
    /\ status[procs[1].args.user].ok
    /\ procs[1].args.sha \in DOMAIN status[procs[1].args.user].json

-----------------------------------------------------------------------------
(* Claims about the status store, one command or request at a time (Spec). *)

HasRecord(user, sha) == status[user].ok /\ sha \in DOMAIN status[user].json

Stored(sha) == sha \in project_shas(papers)

\* C3: cross-entity invariant.  For every (document, annotator) with a
\* status record: if the pair has a payload file, the record's counts are
\* the lengths of the payload's lists; if it has none, both counts are 0.
C3_CountsMatchPayload ==
    \A user \in Users, sha \in Ids :
        HasRecord(user, sha) =>
            LET record == status[user].json[sha]
                file == payload[<<sha, user>>]
            IN IF file.exists
               THEN /\ record.annotations = Len(file.json.annotations)
                    /\ record.relations = Len(file.json.relations)
               ELSE record.annotations = 0 /\ record.relations = 0

\* the step is the run of the command or request named op
StepOf(op) == nops' = nops + 1 /\ last'.op = op

\* C4: post-save counts.  A save for an annotator that has a record for the
\* document leaves that record with the lengths of the saved lists as its
\* counts, whatever they were.
C4_PostSaveCounts ==
    [][ ( /\ StepOf("save_annotations")
          /\ HasRecord(last'.args.user, last'.args.sha) )
        => /\ status'[last'.args.user].ok
           /\ last'.args.sha \in DOMAIN status'[last'.args.user].json
           /\ status'[last'.args.user].json[last'.args.sha].annotations
                 = Len(last'.args.annotations)
           /\ status'[last'.args.user].json[last'.args.sha].relations
                 = Len(last'.args.relations) ]_vars

\* a save replaced non-zero counts of an allocated record by other counts
C4_Witness ==
    /\ last.op = "save_annotations"
    /\ last.result = "ok"
    /\ last.args.annotations = <<"a2", "a1">>
    /\ last.args.relations = <<>>
    /\ HasRecord(last.args.user, last.args.sha)
    /\ status[last.args.user].json[last.args.sha].annotations = 2
    /\ status[last.args.user].json[last.args.sha].comments = "todo"

\* C5: save for an unallocated pair is a successful no-op.  Whenever the
\* annotator has no record for a stored document (no status file, or a
\* status file without the document), save returns success, writes no
\* payload file and changes no status file.
C5_UnallocatedSaveNoOp ==
    [][ ( /\ StepOf("save_annotations")
          /\ Stored(last'.args.sha)
          /\ ~HasRecord(last'.args.user, last'.args.sha) )
        => /\ last'.result = "ok"
           /\ payload' = payload
           /\ status' = status ]_vars

\* C6: mergeField on an absent document is silently dropped.  When the
\* annotator's status file does not contain the document, set comments,
\* set junk and set finished complete without error and leave the file as
\* it was.
C6_AbsentDocDropped ==
    [][ ( /\ \E op \in {"set_pdf_comments", "set_pdf_junk", "set_pdf_finished"} : StepOf(op)
          /\ status_exists(last'.args.user)
          /\ ~HasRecord(last'.args.user, last'.args.sha) )
        => /\ last'.result = "ok"
           /\ status' = status ]_vars

\* C7: assignment never overwrites and is idempotent.  A run of assign or
\* assign_to_users leaves every record that was in a status file as it was;
\* and a run with the arguments of the run just before it, which completed,
\* leaves every status file unchanged.
C7_AssignKeepsRecords ==
    [][ (StepOf("assign") \/ StepOf("assign_to_users"))
        => /\ \A user \in Users :
                 status[user].exists =>
                    /\ status'[user].ok
                    /\ \A sha \in DOMAIN status[user].json :
                          /\ sha \in DOMAIN status'[user].json
                          /\ status'[user].json[sha] = status[user].json[sha]
           /\ ( /\ last.op = last'.op
                /\ last.args = last'.args
                /\ last.result = "ok" )
              => status' = status ]_vars

\* assign ran on a status file holding a record that requests had changed
\* and added a record beside it
C7_Witness ==
    /\ last.op = "assign"
    /\ last.result = "ok"
    /\ last.args.name_file.given
    /\ HasRecord(last.args.annotator, hash_pdf(Bytes1))
    /\ HasRecord(last.args.annotator, hash_pdf(Bytes2))
    /\ hash_pdf(Bytes1) \in last.args.shas
    /\ status[last.args.annotator].json[hash_pdf(Bytes1)].comments = "todo"
    /\ status[last.args.annotator].json[hash_pdf(Bytes1)].name = hash_pdf(Bytes1)

\* the ids an assign is asked for by argument or sha file that are not
\* stored documents
UnknownIds(args) ==
    {sha \in args.shas \cup {args.sha_file.lines[k] : k \in DOMAIN args.sha_file.lines} :
        ~Stored(sha)}

\* C12: single-annotator assignment validates before writing.  An assign
\* whose annotator is not an e-mail address, or that names an id that is not
\* a stored document, fails; the failure for unknown ids carries all of them;
\* and the status directory and every status file are as before.
C12_AssignValidatesFirst ==
    [][ ( /\ StepOf("assign")
          /\ (~FullMatch(last'.args.annotator) \/ UnknownIds(last'.args) # {}) )
        => /\ last'.result \in {"UsageError", "BadArgumentUsage"}
           /\ UnknownIds(last'.args) # {}
                 => (last'.result = "UsageError" /\ last'.ret = UnknownIds(last'.args))
           /\ status_dir' = status_dir
           /\ status' = status ]_vars

\* an assign of a well-formed annotator that named a stored and an unknown
\* id was refused with the unknown one, and the project is still without a
\* status directory
C12_Witness ==
    /\ last.op = "assign"
    /\ last.result = "UsageError"
    /\ last.args.shas = Shas
    /\ FullMatch(last.args.annotator)
    /\ Stored(hash_pdf(Bytes1))
    /\ last.ret = {hash_pdf(Bytes2)}
    /\ ~status_dir

\* C13: multi-user assignment has partial-failure semantics.  After an
\* assign_to_users of stored documents D completes, every line of the users
\* file that is an e-mail address has a status file with a record for every
\* id of D, whatever lines come before or after it; every other line is
\* reported and has no status file.
C13_ValidUsersAssigned ==
    [][ (StepOf("assign_to_users") /\ last'.result = "ok")
        => \A k \in DOMAIN last'.args.emails :
              LET entry == strip(last'.args.emails[k])
                  D == last'.args.shas
                         \cup (IF last'.args.all THEN {sha \in Ids : Stored(sha)} ELSE {})
              IN IF FullMatch(entry)
                 THEN /\ status'[entry].ok
                      /\ \A sha \in D : sha \in DOMAIN status'[entry].json
                 ELSE /\ k \in last'.ret
                      /\ ~status'[entry].exists ]_vars

\* an assign_to_users of both documents whose users file has a malformed
\* line before a well-formed one: the well-formed one got both records
C13_Witness ==
    /\ last.op = "assign_to_users"
    /\ last.result = "ok"
    /\ last.args.emails = <<line(noDot), line(ann1)>>
    /\ last.args.shas = Shas
    /\ last.ret = {1}
    /\ DOMAIN status[ann1].json = Shas
    /\ ~status[noDot].exists

\* C15: fallback allocation.  For an annotator without a status file,
\* get_allocation_info returns one record for every stored document and no
\* other, each with the default fields, with hasAllocatedPapers false, and
\* creates no status file.
C15_FallbackAllocation ==
    [][ ( /\ StepOf("get_allocation_info")
          /\ ~status_exists(last'.args.user) )
        => /\ last'.result = "ok"
           /\ ~last'.ret.hasAllocatedPapers
           /\ Len(last'.ret.papers) = Cardinality({sha \in Ids : Stored(sha)})
           /\ \A sha \in Ids :
                 Stored(sha) => \E k \in DOMAIN last'.ret.papers : last'.ret.papers[k].sha = sha
           /\ \A k \in DOMAIN last'.ret.papers :
                 LET r == last'.ret.papers[k]
                 IN /\ r.annotations = 0 /\ r.relations = 0
                    /\ ~r.finished /\ ~r.junk
                    /\ r.comments = "" /\ r.completedAt = "None"
           /\ status_dir' = status_dir
           /\ status' = status ]_vars

\* an annotator without a status file asked for an allocation in a project
\* with two stored documents, one of them assigned to another annotator
C15_Witness ==
    /\ last.op = "get_allocation_info"
    /\ last.args.user = ann2
    /\ ~status[ann2].exists
    /\ HasRecord(ann1, hash_pdf(Bytes1))
    /\ ~last.ret.hasAllocatedPapers
    /\ Len(last.ret.papers) = 2

\* C16: load returns the latest save wholesale.  A payload file changes
\* only in a save for its document and annotator; a save by an annotator
\* who has a record for the document succeeds and leaves exactly its two
\* lists as the payload; and a load returns the lists of the payload file,
\* or two empty lists when there is none, without error and without
\* creating or changing a file.
C16_LoadReturnsLatestSave ==
    [][ /\ \A f \in Ids \X Users :
              payload'[f] # payload[f]
              => (StepOf("save_annotations") /\ f = <<last'.args.sha, last'.args.user>>)
        /\ (StepOf("save_annotations") /\ HasRecord(last'.args.user, last'.args.sha))
              => /\ last'.result = "ok"
                 /\ payload'[<<last'.args.sha, last'.args.user>>].ok
                 /\ payload'[<<last'.args.sha, last'.args.user>>].json
                       = [ annotations |-> last'.args.annotations,
                           relations |-> last'.args.relations ]
        /\ StepOf("get_annotations")
              => LET file == payload[<<last'.args.sha, last'.args.user>>]
                 IN /\ last'.result = "ok"
                    /\ last'.ret = IF file.exists
                                   THEN file.json
                                   ELSE [annotations |-> <<>>, relations |-> <<>>]
                    /\ payload' = payload
                    /\ status' = status ]_vars

\* a load returned the two annotations of the save before it, by an
\* annotator whose record counts them
C16_Witness ==
    /\ last.op = "get_annotations"
    /\ last.result = "ok"
    /\ last.ret.annotations = <<"a2", "a1">>
    /\ HasRecord(last.args.user, last.args.sha)
    /\ status[last.args.user].json[last.args.sha].annotations = 2

\* C17: unallocated status mutations succeed with no effect.  For an
\* annotator without a status file, set comments, set junk, set finished
\* and save return success; afterwards the annotator has no status file and
\* no payload file, and no file of any annotator has changed.
C17_UnallocatedMutationNoEffect ==
    [][ ( /\ \E op \in MutationOps : StepOf(op)
          /\ ~(status_dir /\ status[last'.args.user].exists) )
        => /\ last'.result = "ok"
           /\ ~status'[last'.args.user].exists
           /\ \A sha \in Ids : ~payload'[<<sha, last'.args.user>>].exists
           /\ status_dir' = status_dir
           /\ status' = status
           /\ payload' = payload ]_vars

\* a save with annotations for a stored document, by an annotator without
\* a status file, while another annotator has the document assigned and
\* annotated
C17_Witness ==
    /\ last.op = "save_annotations"
    /\ last.result = "ok"
    /\ last.args.user = ann2
    /\ last.args.annotations = <<"a1">>
    /\ ~status[ann2].exists
    /\ Stored(last.args.sha)
    /\ payload[<<last.args.sha, ann1>>].exists

\* the annotator's status mapping: that of the status file, empty without one
MappingOf(user) == IF status[user].exists THEN status[user].json ELSE EmptyDict

\* C19: explicit allocation is decided by a non-empty mapping.
\* get_allocation_info answers with hasAllocatedPapers true and the
\* annotator's own records exactly when the annotator's status mapping is
\* non-empty; with an empty mapping (no status file, or a file holding {})
\* it answers with a record for every stored document and
\* hasAllocatedPapers false.
C19_ExplicitIffNonEmpty ==
    [][ (StepOf("get_allocation_info") /\ last'.result = "ok")
        => LET mapping == MappingOf(last'.args.user)
               got == {last'.ret.papers[k].sha : k \in DOMAIN last'.ret.papers}
           IN IF DOMAIN mapping # {}
              THEN last'.ret.hasAllocatedPapers /\ got = DOMAIN mapping
              ELSE ~last'.ret.hasAllocatedPapers /\ got = {sha \in Ids : Stored(sha)} ]_vars

\* the fields of a status record each mutation names
NamedFields(op) ==
    IF op = "set_pdf_comments" THEN {"comments"}
    ELSE IF op = "set_pdf_junk" THEN {"junk"}
    ELSE IF op = "set_pdf_finished" THEN {"finished"}
    ELSE {"annotations", "relations"}

\* C20: merge-update frame.  A status mutation for annotator A and document
\* d that succeeds leaves every other annotator's status file, the keys of
\* A's file, every other record of A's file and every field of A's record
\* for d that it does not name as they were.
C20_MergeFrame ==
    [][ ( /\ \E op \in MutationOps : StepOf(op)
          /\ last'.result = "ok" )
        => LET A == last'.args.user
               d == last'.args.sha
           IN /\ \A user \in Users \ {A} : status'[user] = status[user]
              /\ status'[A].exists = status[A].exists
              /\ status'[A].ok = status[A].ok
              /\ DOMAIN status'[A].json = DOMAIN status[A].json
              /\ \A sha \in DOMAIN status[A].json :
                    /\ DOMAIN status'[A].json[sha] = DOMAIN status[A].json[sha]
                    /\ \A f \in DOMAIN status[A].json[sha] :
                          (sha # d \/ f \notin NamedFields(last'.op))
                          => status'[A].json[sha][f] = status[A].json[sha][f] ]_vars

\* set junk succeeded on a record whose comments an earlier request had
\* set, in a file with a second record
C20_Witness ==
    /\ last.op = "set_pdf_junk"
    /\ last.result = "ok"
    /\ last.args.data.junk
    /\ DOMAIN status[last.args.user].json = Shas
    /\ status[last.args.user].json[last.args.sha].junk
    /\ status[last.args.user].json[last.args.sha].comments = "todo"

\* C21: status keys are stored documents.  A key enters a status file only
\* in a run of assign or assign_to_users, and only when a pdf is stored
\* under it as the run starts; so every key of every status file is the id
\* of a stored document.
C21_StatusKeysStored ==
    [][ /\ \A user \in Users :
              \A sha \in DOMAIN status'[user].json \ DOMAIN status[user].json :
                 /\ StepOf("assign") \/ StepOf("assign_to_users")
                 /\ papers[sha].dir /\ papers[sha].pdf
        /\ \A user \in Users :
              \A sha \in DOMAIN status'[user].json :
                 papers'[sha].dir /\ papers'[sha].pdf ]_vars

\* an assign with a sha file gave an annotator the one stored document
\* while the other document of the model is not stored
C21_Witness ==
    /\ last.op = "assign"
    /\ last.result = "ok"
    /\ last.args.sha_file.given
    /\ DOMAIN status[last.args.annotator].json = {hash_pdf(Bytes1)}
    /\ ~papers[hash_pdf(Bytes2)].dir

-----------------------------------------------------------------------------
(* DatasetSpec: the dataset commands one after the other, with and without *)
(* --no-hash, on local directories and on bucket listings.                 *)

\* the downloads that fail in one run: none, or that of one object
DownloadFailures(files) == {{}} \cup {{k} : k \in DOMAIN files}

DatasetNext ==
    \/ \E pdfs \in Directories, no_hash \in BOOLEAN : add(pdfs, no_hash)
    \/ \E files \in Batches, no_hash \in BOOLEAN :
          \E failed \in DownloadFailures(files) : add_from_s3(files, no_hash, failed)

DatasetSpec == Init /\ [][DatasetNext]_vars

\* C8: ingest on an existing identity is a no-op.  A run of add or
\* add_from_s3 leaves every directory that existed as it was, so a run whose
\* pdfs all resolve to existing names changes nothing; a directory it
\* creates holds a pdf of the batch under that pdf's name; and without
\* --no-hash every pdf of the batch ends stored, whole, under its digest,
\* whatever its file name, when the run completes.
C8_ExistingIdentityNoOp ==
    [][ (StepOf("add") \/ StepOf("add_from_s3"))
        => LET pdfs == last'.args.pdfs
               no_hash == last'.args.no_hash
           IN /\ \A id \in Ids : papers[id].dir => papers'[id] = papers[id]
              /\ (\A k \in DOMAIN pdfs : papers[pdf_name_of(pdfs[k], no_hash)].dir)
                    => papers' = papers
              /\ \A id \in Ids :
                    (papers'[id].dir /\ ~papers[id].dir)
                    => \E k \in DOMAIN pdfs :
                          /\ pdf_name_of(pdfs[k], no_hash) = id
                          /\ papers'[id] = PaperDir(pdfs[k].bytes)
              /\ (~no_hash /\ last'.result = "ok")
                    => \A k \in DOMAIN pdfs :
                          papers'[hash_pdf(pdfs[k].bytes)] = PaperDir(pdfs[k].bytes) ]_vars

\* a --no-hash add of other bytes under a name in use, which kept the
\* stored bytes; and the two byte-identical files stored once by digest
C8_Witness ==
    /\ last.op = "add"
    /\ last.args.no_hash
    /\ last.args.pdfs = <<pdf_x2>>
    /\ papers["x"] = PaperDir(Bytes1)
    /\ papers[hash_pdf(Bytes1)] = PaperDir(Bytes1)
    /\ ~papers["y"].dir

\* C14: remote fetch has partial-failure semantics.  When an add_from_s3 on
\* several objects cannot download some of them, every other object of the
\* batch is stored under its name all the same.
C14_FetchPartialFailure ==
    [][ ( /\ StepOf("add_from_s3")
          /\ last'.args.failed # {}
          /\ last'.args.failed # DOMAIN last'.args.pdfs )
        => \A k \in DOMAIN last'.args.pdfs \ last'.args.failed :
              papers'[pdf_name_of(last'.args.pdfs[k], last'.args.no_hash)].pdf ]_vars

-----------------------------------------------------------------------------
(* IngestSpec: dataset commands, each on one pdf, overlap and may be       *)
(* killed.  One step is one access to the papers directory.                *)

IngestIdle ==
    [cmd |-> "idle", pdf |-> pdf_x1, no_hash |-> FALSE, pdf_name |-> "", pc |-> "idle",
     offset |-> 0, detached |-> FALSE, result |-> "None"]

\* Path.mkdir(exist_ok=...) on <papers>/<pdf_name>
mkdir(store, pdf_name, exist_ok) ==
    IF store[pdf_name].dir
    THEN [raised |-> IF exist_ok THEN "None" ELSE "FileExistsError", store |-> store]
    ELSE [raised |-> "None", store |-> [store EXCEPT ![pdf_name] = EmptyPaperDir]]

\* output_dir.mkdir() without exist_ok
output_dir_mkdir_strict(store, pdf_name) == mkdir(store, pdf_name, FALSE)

\* output_dir.mkdir(exist_ok=True)
output_dir_mkdir(store, pdf_name) == mkdir(store, pdf_name, TRUE)

\* a file after one block is written at `offset` blocks from its start: the
\* block there is replaced, a file that ends before it is filled with 0
write_block(bytes, offset, block) ==
    [ k \in 1..(IF Len(bytes) > offset THEN Len(bytes) ELSE offset + 1) |->
        IF k = offset + 1 THEN block
        ELSE IF k <= Len(bytes) THEN bytes[k]
        ELSE 0 ]

\* the command starts on its pdf, names it, and tests output_dir.exists()
ingest_exists(p, cmd, pdf, no_hash) ==
    LET pdf_name == pdf_name_of(pdf, no_hash)
    IN /\ procs[p].pc = "idle"
       /\ procs' = [procs EXCEPT ![p] =
             [cmd |-> cmd, pdf |-> pdf, no_hash |-> no_hash, pdf_name |-> pdf_name,
              pc |-> IF papers[pdf_name].dir THEN "done" ELSE "mkdir",
              offset |-> 0, detached |-> FALSE,
              result |-> IF papers[pdf_name].dir THEN "skipped" ELSE "None"]]
       /\ UNCHANGED <<papers, status_dir, status, payload, last, nops>>

\* output_dir.mkdir(exist_ok=True)
ingest_mkdir(p) ==
    LET made == output_dir_mkdir(papers, procs[p].pdf_name)
    IN /\ procs[p].pc = "mkdir"
       /\ papers' = made.store
       /\ procs' = [procs EXCEPT
             ![p].pc = IF made.raised # "None" THEN "done"
                       ELSE IF procs[p].cmd = "add" THEN "open" ELSE "move",
             ![p].result = made.raised]
       /\ UNCHANGED <<status_dir, status, payload, last, nops>>

\* shutil.move, os.rename succeeding: the staged file becomes the pdf.  A
\* copy that has the replaced file open goes on writing to that file, which
\* no longer has a name.
move_rename(p) ==
    /\ procs[p].pc = "move"
    /\ papers' = [papers EXCEPT ![procs[p].pdf_name] = PaperDir(procs[p].pdf.bytes)]
    /\ procs' = [r \in 1..NProcs |->
          IF r = p
          THEN [procs[p] EXCEPT !.pc = "done", !.result = "created"]
          ELSE IF procs[r].pc = "write" /\ procs[r].pdf_name = procs[p].pdf_name
          THEN [procs[r] EXCEPT !.detached = TRUE]
          ELSE procs[r]]
    /\ UNCHANGED <<status_dir, status, payload, last, nops>>

\* shutil.move, os.rename failing across file systems: it copies instead
move_copy(p) ==
    /\ procs[p].pc = "move"
    /\ procs' = [procs EXCEPT ![p].pc = "open"]
    /\ UNCHANGED <<papers, status_dir, status, payload, last, nops>>

\* shutil.copy opens the destination for writing: created, or emptied
copy_open(p) ==
    /\ procs[p].pc = "open"
    /\ papers' = [papers EXCEPT ![procs[p].pdf_name] = PaperDir(<<>>)]
    /\ procs' = [procs EXCEPT ![p].pc = "write", ![p].offset = 0]
    /\ UNCHANGED <<status_dir, status, payload, last, nops>>

\* shutil.copy writes the next block of the source at its own offset
copy_write(p) ==
    LET src == procs[p].pdf.bytes
        offset == procs[p].offset
    IN /\ procs[p].pc = "write"
       /\ papers' = IF procs[p].detached THEN papers
                    ELSE [papers EXCEPT ![procs[p].pdf_name].bytes =
                             write_block(@, offset, src[offset + 1])]
       /\ procs' = [procs EXCEPT
             ![p].offset = offset + 1,
             ![p].pc = IF offset + 1 = Len(src) THEN "done" ELSE "write",
             ![p].result = IF offset + 1 = Len(src) THEN "created" ELSE "None"]
       /\ UNCHANGED <<status_dir, status, payload, last, nops>>

\* the command is killed between two of its steps
kill(p) ==
    /\ procs[p].pc \in {"mkdir", "move", "open", "write"}
    /\ procs' = [procs EXCEPT ![p].pc = "killed", ![p].result = "killed"]
    /\ UNCHANGED <<papers, status_dir, status, payload, last, nops>>

IngestInit ==
    /\ papers = [id \in Ids |-> NoDir]
    /\ status_dir = FALSE
    /\ status = [user \in Users |-> NoFile]
    /\ payload = [f \in Ids \X Users |-> NoFile]
    /\ last = [op |-> "init", args |-> NoArgs, result |-> "ok", ret |-> EmptyDict]
    /\ nops = 0
    /\ procs = [p \in 1..NProcs |-> IngestIdle]

IngestNext ==
    \E p \in 1..NProcs :
        \/ \E cmd \in {"add", "add_from_s3"}, pdf \in LocalPdfs, no_hash \in BOOLEAN :
              ingest_exists(p, cmd, pdf, no_hash)
        \/ ingest_mkdir(p)
        \/ move_rename(p)
        \/ move_copy(p)
        \/ copy_open(p)
        \/ copy_write(p)
        \/ kill(p)

IngestSpec == IngestInit /\ [][IngestNext]_vars

\* every command has ended, by itself or killed
Quiet == \A p \in 1..NProcs : procs[p].pc \in {"idle", "done", "killed"}

\* C9: ingest is crash-atomic.  Once every command has ended, a command
\* that hashed its pdf and skipped it as already added finds the pdf's
\* whole bytes stored under its digest, also when other commands were
\* killed on the way.
C9_CrashAtomicIngest ==
    \A p \in 1..NProcs :
        ( /\ Quiet
          /\ procs[p].pc = "done"
          /\ procs[p].result = "skipped"
          /\ ~procs[p].no_hash )
        => papers[procs[p].pdf_name] = PaperDir(procs[p].pdf.bytes)

\* the commands that ran are p and q, on byte-identical pdfs, and both ended
\* by themselves
RanTogether(p, q) ==
    /\ p # q
    /\ procs[p].pc = "done" /\ procs[q].pc = "done"
    /\ procs[p].pdf.bytes = procs[q].pdf.bytes
    /\ \A r \in 1..NProcs \ {p, q} : procs[r].pc = "idle"

\* both ended without error, under one name, and that name's directory is
\* the only one and holds the whole pdf
OneCopy(p, q) ==
    /\ procs[p].result \in {"created", "skipped"}
    /\ procs[q].result \in {"created", "skipped"}
    /\ procs[p].pdf_name = procs[q].pdf_name
    /\ papers[procs[p].pdf_name] = PaperDir(procs[p].pdf.bytes)
    /\ {id \in Ids : papers[id].dir} = {procs[p].pdf_name}

\* C10 as stated: concurrent ingest of the same content.  Two overlapping
\* ingests of byte-identical pdfs both complete without error, resolve to
\* one id, and leave exactly one whole stored copy under it.
C10_ConcurrentSameContent ==
    \A p, q \in 1..NProcs : RanTogether(p, q) => OneCopy(p, q)

\* C10 as amended: the same for two ingests that both hash their pdf.
C10_ConcurrentSameContentHashed ==
    \A p, q \in 1..NProcs :
        (RanTogether(p, q) /\ ~procs[p].no_hash /\ ~procs[q].no_hash) => OneCopy(p, q)

\* two hashing ingests of byte-identical files under different names ran
\* into each other: both passed the exists test and both wrote the pdf
C10_Witness ==
    /\ RanTogether(1, 2)
    /\ ~procs[1].no_hash /\ ~procs[2].no_hash
    /\ procs[1].pdf.stem # procs[2].pdf.stem
    /\ procs[1].result = "created"
    /\ procs[2].result = "created"
    /\ procs[1].cmd = "add"

=============================================================================
